---------------------------- MODULE Spec2Model ----------------------------
(***************************************************************************)
(* TNLMeans (VapourSynth): the four NL-means frame algorithms, the         *)
(* temporal frame cache and the per-thread slot pool of TNLMeans.cpp.      *)
(*                                                                         *)
(* Arithmetic.  The source accumulates IEEE doubles.  Here a weight is a   *)
(* fixed-point integer with WOne standing for 1.0, sums and weights are    *)
(* exact integers, and a weight at or below DBL_EPSILON is 0.  Floating    *)
(* rounding of a sum (its dependence on the order of additions) is not     *)
(* represented.  One plane is modelled; the source runs the same loop      *)
(* once per plane.                                                         *)
(***************************************************************************)
EXTENDS Integers, Sequences, FiniteSets, TLC

VARIABLES
    cfg,        \* the filter's parameters and the clip's geometry (TNLMeans members)
    node,       \* the source clip: frame number -> plane (row-major pixels)
    threads,    \* nlThread[numThreads]: the slots
    calls,      \* the GetFrame invocations in flight
    hist,       \* per slot: the requests it has served, oldest first (history)
    res,        \* the record returned by the last frame algorithm applied
    probe       \* the plane position whose memory accesses are inspected

vars == <<cfg, node, threads, calls, hist, res, probe>>

Min(a, b) == IF a < b THEN a ELSE b
Max(a, b) == IF a > b THEN a ELSE b
Abs(a) == IF a < 0 THEN -a ELSE a

\* A for-loop that adds F(i) for i = lo..hi.
SumRange(lo, hi, F(_)) ==
    LET RECURSIVE S(_)
        S(i) == IF i > hi THEN 0 ELSE F(i) + S(i + 1)
    IN S(lo)

-----------------------------------------------------------------------------
(* Bounds of the model *)

MaxRadius == 1      \* Ax, Ay, Sx, Sy, Bx, By range over 0..MaxRadius
MaxWidth == 3       \* plane widths 1..MaxWidth
MaxHeight == 2      \* plane heights 1..MaxHeight

-----------------------------------------------------------------------------
(* The parameters (TNLMeans::TNLMeans) *)

Ax == cfg.Ax
Ay == cfg.Ay
Az == cfg.Az
Sx == cfg.Sx
Sy == cfg.Sy
Bx == cfg.Bx
By == cfg.By
ssd == cfg.ssd
a2 == cfg.a2        \* a * a, a positive integer here
h == cfg.h          \* a positive integer here
width == cfg.width
height == cfg.height
numFrames == cfg.numFrames

Sxd == Sx * 2 + 1
Syd == Sy * 2 + 1
Sxa == Sxd * Syd
Bxd == Bx * 2 + 1
Byd == By * 2 + 1
Bxa == Bxd * Byd
Azdm1 == Az * 2
heightm1 == height - 1
widthm1 == width - 1
pitch == width

\* 1.0 in the fixed-point representation of weights.
WOne == 64

\* exp(-num/den) for num >= 0, den > 0, in units of WOne: base 2 with a linear
\* interpolation between powers, non-increasing in num/den, WOne at 0 and 0 far out.
ExpFix(num, den) ==
    LET q == num \div den
        r == num % den
    IN IF q > 6 THEN 0 ELSE ((WOne \div (2 ^ q)) * (2 * den - r)) \div (2 * den)

\* gw[w]: the kernel table, filled row by row for j = -Sy..Sy, k = -Sx..Sx.
gw ==
    [w \in 0..(Sxa - 1) |->
        LET j == (w \div Sxd) - Sy
            k == (w % Sxd) - Sx
            m == IF j < 0 THEN Min(j + By, 0) ELSE Max(j - By, 0)
            n == IF k < 0 THEN Min(k + Bx, 0) ELSE Max(k - Bx, 0)
        IN ExpFix(m * m + n * n, 2 * a2)]

\* One patch sample's distance term: (s1[k] - s2[k]) [squared] * gwT[k].
GetSSD(s1, s2, g) == (s1 - s2) * (s1 - s2) * g
GetSAD(s1, s2, g) == Abs(s1 - s2) * g
\* exp( (diff / gweights) * h2in ) and exp( (diff / gweights) * hin ).
GetSSDWeight(diff, gweights) == ExpFix(diff, gweights * h * h)
GetSADWeight(diff, gweights) == ExpFix(diff, gweights * h)

\* The patch window in the source's loop variables: rows yT..yB, columns xL..xR
\* around the candidate (u, v) and the centre (y, x).
PatchT(u, y) == -Min(Min(Sy, u), y)
PatchB(u, y) == Min(Min(Sy, heightm1 - u), heightm1 - y)
PatchL(v, x) == -Min(Min(Sx, v), x)
PatchR(v, x) == Min(Min(Sx, widthm1 - v), widthm1 - x)

\* The places one pair's patch loop reads: <<array, index>> for the candidate's
\* plane "s1", the centre's plane "s2" and the kernel table "gw".
PatchReads(u, v, y, x) ==
    UNION { { <<"s1", u + j, v + k>>, <<"s2", y + j, x + k>>,
              <<"gw", 0, (j + Sy) * Sxd + Sx + k>> } :
            <<j, k>> \in (PatchT(u, y)..PatchB(u, y)) \X (PatchL(v, x)..PatchR(v, x)) }

\* The inner j, k loops: the kernel-weighted patch distance of candidate (u, v) in
\* plane pf1p and centre (y, x) in plane pf2p, and the pair's weight.
PairWeight(pf1p, pf2p, u, v, y, x) ==
    LET yT == PatchT(u, y)
        yB == PatchB(u, y)
        xL == PatchL(v, x)
        xR == PatchR(v, x)
        G(j, k) == gw[(j + Sy) * Sxd + Sx + k]
        D(j, k) == IF ssd
                   THEN GetSSD(pf1p[(u + j) * pitch + v + k], pf2p[(y + j) * pitch + x + k], G(j, k))
                   ELSE GetSAD(pf1p[(u + j) * pitch + v + k], pf2p[(y + j) * pitch + x + k], G(j, k))
        diff == SumRange(yT, yB, LAMBDA j : SumRange(xL, xR, LAMBDA k : D(j, k)))
        gweights == SumRange(yT, yB, LAMBDA j : SumRange(xL, xR, LAMBDA k : G(j, k)))
    IN IF ssd THEN GetSSDWeight(diff, gweights) ELSE GetSADWeight(diff, gweights)

\* dstp[x] = max( min( int( sum / weight + 0.5 ), 255 ), 0 )
Normalize(sum, weight) == Max(Min((2 * sum + weight) \div (2 * weight), 255), 0)

\* wmax <= epsilon ? 1.0 : wmax
SelfWeight(wmax) == IF wmax <= 0 THEN WOne ELSE wmax


\* F(e) with e evaluated once (a local variable holding e).
Strict(e, F(_)) == CHOOSE r \in {F(t) : t \in {e}} : TRUE

\* A for-loop that threads a state through Body(s, i) for i = lo..hi.
ForLoop(lo, hi, s0, Body(_, _)) ==
    LET RECURSIVE L(_, _)
        L(i, s) == IF i > hi THEN s ELSE Strict(Body(s, i), LAMBDA t : L(i + 1, t))
    IN Strict(s0, LAMBDA t : L(lo, t))

\* A for-loop i = lo; i < lim; i += step.
ForStep(lo, lim, step, s0, Body(_, _)) ==
    LET RECURSIVE L(_, _)
        L(i, s) == IF i >= lim THEN s ELSE Strict(Body(s, i), LAMBDA t : L(i + step, t))
    IN Strict(s0, LAMBDA t : L(lo, t))

nullptr == << >>

\* The content of a newly allocated array of doubles: never written.
Uninit == -1

NewArray(size) == [i \in 0..(size - 1) |-> Uninit]

\* fill_zero_d( p, size )
fill_zero_d(size) == [i \in 0..(size - 1) |-> 0]

\* vsapi->newVideoFrame: a writable frame no pixel of which is written yet.
NewFrame == [i \in 0..(width * height - 1) |-> Uninit]

\* mapn: a frame number clamped to the clip.
mapn(n) == IF n < 0 THEN 0 ELSE IF n >= numFrames THEN numFrames - 1 ELSE n

-----------------------------------------------------------------------------
(* GetFrameWOZ: spatial, per pixel *)

\* The candidate window of centre (y, x): rows y..stopy, columns startx..stopx.
WOZStopY(y) == Min(y + Ay, heightm1)
WOZStartXT(x) == Max(x - Ax, 0)
WOZStopX(x) == Min(x + Ax, widthm1)
\* Mutants of WOZStartX: the centre row scanned from the window's left edge, and
\* the centre row scanned from the centre itself.
WOZStartX_NoSplit(u, y, x) == WOZStartXT(x)
WOZStartX_Self(u, y, x) == IF u = y THEN x ELSE WOZStartXT(x)
WOZStartX(u, y, x) == IF u = y THEN x + 1 ELSE WOZStartXT(x)

\* Mutant of WOZPair: the candidate's weight total is not updated.
WOZPair_NoCWeight(ds, pfp, y, x, u, v) ==
    LET coff == u * width + v
        doff == y * width + x
    IN Strict(PairWeight(pfp, pfp, u, v, y, x), LAMBDA weight :
         [sums    |-> [ds.sums EXCEPT ![coff] = @ + pfp[y * pitch + x] * weight,
                                      ![doff] = @ + pfp[u * pitch + v] * weight],
          weights |-> [ds.weights EXCEPT ![doff] = @ + weight],
          wmaxs   |-> [ds.wmaxs EXCEPT ![coff] = IF weight > @ THEN weight ELSE @,
                                       ![doff] = IF weight > @ THEN weight ELSE @]])

\* One pair: the weight goes to the candidate's and to the centre's accumulators.
WOZPair(ds, pfp, y, x, u, v) ==
    LET coff == u * width + v
        doff == y * width + x
    IN Strict(PairWeight(pfp, pfp, u, v, y, x), LAMBDA weight :
         [sums    |-> [ds.sums EXCEPT ![coff] = @ + pfp[y * pitch + x] * weight,
                                      ![doff] = @ + pfp[u * pitch + v] * weight],
          weights |-> [ds.weights EXCEPT ![coff] = @ + weight,
                                         ![doff] = @ + weight],
          wmaxs   |-> [ds.wmaxs EXCEPT ![coff] = IF weight > @ THEN weight ELSE @,
                                       ![doff] = IF weight > @ THEN weight ELSE @]])

\* The self term of pixel doff with source value src, and the pixel written.
SelfTerm(st, doff, src) ==
    LET wmax == SelfWeight(st.ds.wmaxs[doff])
        dsum == st.ds.sums[doff] + src * wmax
        dweight == st.ds.weights[doff] + wmax
    IN [ds   |-> [st.ds EXCEPT !.sums[doff] = dsum, !.weights[doff] = dweight],
        dstp |-> [st.dstp EXCEPT ![doff] = Normalize(dsum, dweight)]]

\* The body of the x loop: all candidates of (y, x), then its self term.
WOZPixel(st, pfp, y, x) ==
    Strict([ds   |-> ForLoop(y, WOZStopY(y), st.ds,
                         LAMBDA d, u : ForLoop(WOZStartX(u, y, x), WOZStopX(x), d,
                                           LAMBDA d2, v : WOZPair(d2, pfp, y, x, u, v))),
            dstp |-> st.dstp],
           LAMBDA s1 : SelfTerm(s1, y * width + x, pfp[y * pitch + x]))

\* The plane loop: the accumulators are zeroed, then every pixel in raster order.
WOZPlane(pfp, dstPF) ==
    LET zero == [sums    |-> fill_zero_d(height * width),
                 weights |-> fill_zero_d(height * width),
                 wmaxs   |-> fill_zero_d(height * width)]
    IN ForLoop(0, height - 1, [ds |-> zero, dstp |-> dstPF],
           LAMBDA s, y : ForLoop(0, width - 1, s, LAMBDA s2, x : WOZPixel(s2, pfp, y, x)))

\* GetFrameWOZ on slot t for frame n; alloc says whether the output frame could be
\* allocated.  Returns the slot, the frame returned and the filter error set.
GetFrameWOZ(t, n, alloc) ==
    IF ~alloc
    THEN [t |-> t, dst |-> nullptr, err |-> TRUE]
    ELSE Strict(WOZPlane(node[mapn(n)], NewFrame), LAMBDA st :
             [t |-> [t EXCEPT !.ds = st.ds], dst |-> st.dstp, err |-> FALSE])

-----------------------------------------------------------------------------
(* GetFrameWOZB: spatial, per block *)

\* Tile centres: By, By + Byd, ... below height + By (and the same in x).
\* Mutant of BlkStartY: the rows above the centre are not scanned.
BlkStartY_Causal(y) == Max(y, By)
BlkStartY(y) == Max(y - Ay, By)
BlkStopY(y) == Min(y + Ay, heightm1 - Min(By, heightm1 - y))
BlkStartX(x) == Max(x - Ax, Bx)
BlkStopX(x) == Min(x + Ax, widthm1 - Min(Bx, widthm1 - x))
\* The rows and columns of the tile that lie in the plane.
BlkTrY(y) == Min(Byd, height - y + By)
\* Mutant of BlkTrX: the last tile of a row is not clipped.
BlkTrX_NoClip(x) == Bxd
BlkTrX(x) == Min(Bxd, width - x + Bx)
\* The block footprint around a candidate: rows -By..yBb, columns -Bx..xRb.
\* Mutant of BlkB: the footprint's rows are not clipped at the last row.
BlkB_NoClip(u, y) == By
BlkB(u, y) == Min(Min(By, heightm1 - u), heightm1 - y)
BlkR(v, x) == Min(Min(Bx, widthm1 - v), widthm1 - x)

\* One candidate: its weight is smeared over the block footprint.
BlkSmear(b, weight, pf1p, u, v, y, x) ==
    Strict(ForLoop(-By, BlkB(u, y), b,
               LAMBDA b1, j : ForLoop(-Bx, BlkR(v, x), b1,
                   LAMBDA b2, k :
                       [b2 EXCEPT !.sumsb[(j + By) * Bxd + Bx + k] =
                                      @ + pf1p[(u + j) * pitch + v + k] * weight,
                                  !.weightsb[(j + By) * Bxd + Bx + k] = @ + weight])),
           LAMBDA b3 : [b3 EXCEPT !.wmax = IF weight > @ THEN weight ELSE @])

\* The u, v loops of one tile over the candidates of plane pf1p; self is the
\* candidate skipped by "continue".
BlkScan(b, pf1p, pf2p, y, x, self) ==
    ForLoop(BlkStartY(y), BlkStopY(y), b,
        LAMBDA b1, u : ForLoop(BlkStartX(x), BlkStopX(x), b1,
            LAMBDA b2, v : IF self /\ u = y /\ v = x
                           THEN b2
                           ELSE Strict(PairWeight(pf1p, pf2p, u, v, y, x),
                                    LAMBDA weight : BlkSmear(b2, weight, pf1p, u, v, y, x))))

ZeroBlock == [sumsb |-> fill_zero_d(Bxa), weightsb |-> fill_zero_d(Bxa), wmax |-> 0]

\* One pixel of the end of a tile: row j, column k of the tile takes the self term
\* and is written out.
BlkNormalizeOne(s, srcp, y, x, j, k) ==
    LET i == j * Bxd + k
        pos == (y - By + j) * pitch + x - Bx + k
        sum == s.b.sumsb[i] + srcp[pos] * s.b.wmax
        weight == s.b.weightsb[i] + s.b.wmax
    IN [b    |-> [s.b EXCEPT !.sumsb[i] = sum, !.weightsb[i] = weight],
        dstp |-> [s.dstp EXCEPT ![pos] = Normalize(sum, weight)]]

\* The end of a tile: the self term and the output of each of its pixels.
BlkNormalize(b, srcp, dstp, y, x) ==
    ForLoop(0, BlkTrY(y) - 1, [b |-> [b EXCEPT !.wmax = SelfWeight(@)], dstp |-> dstp],
        LAMBDA s, j : ForLoop(0, BlkTrX(x) - 1, s,
            LAMBDA s2, k : BlkNormalizeOne(s2, srcp, y, x, j, k)))

\* One tile of GetFrameWOZB, centre (y, x).
WOZBTile(st, pfp, y, x) ==
    Strict(BlkScan(ZeroBlock, pfp, pfp, y, x, TRUE),
        LAMBDA b : BlkNormalize(b, pfp, st.dstp, y, x))

\* The plane loop of GetFrameWOZB.
WOZBPlane(b0, pfp, dstPF) ==
    ForStep(By, height + By, Byd, [b |-> b0, dstp |-> dstPF],
        LAMBDA s, y : ForStep(Bx, width + Bx, Bxd, s,
            LAMBDA s2, x : WOZBTile(s2, pfp, y, x)))

GetFrameWOZB(t, n, alloc) ==
    IF ~alloc
    THEN [t |-> t, dst |-> nullptr, err |-> TRUE]
    ELSE Strict(WOZBPlane([sumsb |-> t.sumsb, weightsb |-> t.weightsb, wmax |-> 0],
                          node[mapn(n)], NewFrame),
             LAMBDA st : [t |-> [t EXCEPT !.sumsb = st.b.sumsb, !.weightsb = st.b.weightsb],
                          dst |-> st.dstp, err |-> FALSE])

-----------------------------------------------------------------------------
(* nlFrame, nlCache *)

\* The frame number of a cache slot that holds no frame yet.
NoFNum == -20

\* vsapi->getFrameFilter( n, node, frame_ctx ): a reference to source frame n.
getFrameFilter(n) == [num |-> n]
\* vsapi->getReadPtr( pf, plane ): the plane of a referenced frame.
getReadPtr(pf) == node[pf.num]

\* nlFrame::nlFrame( _useblocks, _size, vi, vsapi )
nlFrame(useblocks, size) ==
    [fnum |-> NoFNum,
     pf   |-> nullptr,
     ds   |-> IF useblocks THEN nullptr
              ELSE [sums    |-> NewArray(width * height),
                    weights |-> NewArray(width * height),
                    wmaxs   |-> NewArray(width * height)],
     dsa  |-> IF useblocks THEN nullptr ELSE [i \in 0..(size - 1) |-> 0]]

\* nlCache::nlCache( _size, _useblocks, vi, vsapi )
nlCache(size, useblocks) ==
    [frames    |-> [i \in 0..(size - 1) |-> nlFrame(useblocks, size)],
     start_pos |-> 0,
     size      |-> size]

\* nlCache::getCachePos( n ); % is C's remainder, which keeps the dividend's sign.
getCachePos(fc, n) ==
    LET s == fc.start_pos + n
    IN IF s >= 0 THEN s % fc.size ELSE -((-s) % fc.size)

\* Mutant of resetCacheStart: a start_pos of 0 is wrapped as well.
resetCacheStart_WrapZero(fc, first, last) ==
    LET Hit(j) == {i \in 0..(fc.size - 1) : fc.frames[i].fnum = j}
        Found == {j \in first..last : Hit(j) # {}}
    IN IF Found = {}
       THEN fc
       ELSE LET j == CHOOSE j \in Found : \A j2 \in Found : j <= j2
                i == CHOOSE i \in Hit(j) : \A i2 \in Hit(j) : i <= i2
                sp == i - j + first
            IN [fc EXCEPT !.start_pos = IF sp <= 0 THEN sp + fc.size
                                        ELSE IF sp >= fc.size THEN sp - fc.size
                                        ELSE sp]

\* nlCache::resetCacheStart( first, last ): the first frame number j of the window
\* found in a slot i fixes start_pos; with none found start_pos stays.
resetCacheStart(fc, first, last) ==
    LET Hit(j) == {i \in 0..(fc.size - 1) : fc.frames[i].fnum = j}
        Found == {j \in first..last : Hit(j) # {}}
    IN IF Found = {}
       THEN fc
       ELSE LET j == CHOOSE j \in Found : \A j2 \in Found : j <= j2
                i == CHOOSE i \in Hit(j) : \A i2 \in Hit(j) : i <= i2
                sp == i - j + first
            IN [fc EXCEPT !.start_pos = IF sp < 0 THEN sp + fc.size
                                        ELSE IF sp >= fc.size THEN sp - fc.size
                                        ELSE sp]

\* Mutant of clearDS: the maxima are not zeroed.
clearDS_KeepMax(fc, nl) ==
    [nl EXCEPT !.ds = IF nl.ds = nullptr THEN nullptr
                      ELSE [sums    |-> fill_zero_d(width * height),
                            weights |-> fill_zero_d(width * height),
                            wmaxs   |-> nl.ds.wmaxs],
               !.dsa = [i \in 0..(fc.size - 1) |-> 0]]

\* nlCache::clearDS( nl )
clearDS(fc, nl) ==
    [nl EXCEPT !.ds = IF nl.ds = nullptr THEN nullptr
                      ELSE [sums    |-> fill_zero_d(width * height),
                            weights |-> fill_zero_d(width * height),
                            wmaxs   |-> fill_zero_d(width * height)],
               !.dsa = [i \in 0..(fc.size - 1) |-> 0]]

\* Mutant of RefillOne: the slot is refilled whatever its fnum.
RefillOne_Always(fc, n, i, clear) ==
    LET pos == getCachePos(fc, i - n + Az)
        nl == fc.frames[pos]
        got == [nl EXCEPT !.pf = getFrameFilter(mapn(i)), !.fnum = i]
    IN [fc EXCEPT !.frames[pos] = IF clear THEN clearDS(fc, got) ELSE got]

\* One turn of the refill loop for frame number i of the window of n: a slot whose
\* fnum is not i drops its frame and fetches frame mapn(i); clear says whether its
\* accumulators and flags are zeroed as well (GetFrameWZ) or not (GetFrameWZB).
RefillOne(fc, n, i, clear) ==
    LET pos == getCachePos(fc, i - n + Az)
        nl == fc.frames[pos]
        got == [nl EXCEPT !.pf = getFrameFilter(mapn(i)), !.fnum = i]
    IN IF nl.fnum # i
       THEN [fc EXCEPT !.frames[pos] = IF clear THEN clearDS(fc, got) ELSE got]
       ELSE fc

\* resetCacheStart and the refill loop at the head of GetFrameWZ and GetFrameWZB.
Refill(fc, n, clear) ==
    ForLoop(n - Az, n + Az, resetCacheStart(fc, n - Az, n + Az),
        LAMBDA c, i : RefillOne(c, n, i, clear))

\* The frames of the window that exist in the clip: logical slots startz..stopz.
startz(n) == Az - Min(n, Az)
stopz(n) == Az + Min(numFrames - n - 1, Az)

-----------------------------------------------------------------------------
(* GetFrameWZ: temporal, per pixel *)

WZStartYT(y) == Max(y - Ay, 0)
WZStartY(z, y) == IF z = Az THEN y ELSE WZStartYT(y)
WZStartX(z, u, y, x) == IF u = y /\ z = Az THEN x + 1 ELSE WOZStartXT(x)

\* Mutant of WZCandidateTakes: the candidate takes every pair.
WZCandidateTakes_Always(cdsa, z) == TRUE
\* if( cdsa[Azdm1-z] != 1 ): the candidate's accumulators take the pair as well.
WZCandidateTakes(cdsa, z) == cdsa[Azdm1 - z] # 1

\* One pair of centre (y, x) of the frame at logical slot Az with candidate (u, v)
\* of the frame at logical slot z.
WZPair(fc, y, x, z, u, v) ==
    LET dpos == getCachePos(fc, Az)
        cpos == getCachePos(fc, z)
        pf1p == getReadPtr(fc.frames[cpos].pf)
        srcp == getReadPtr(fc.frames[dpos].pf)
        coff == u * width + v
        doff == y * width + x
    IN Strict(PairWeight(pf1p, srcp, u, v, y, x), LAMBDA weight :
         Strict([fc EXCEPT !.frames[dpos].ds.weights[doff] = @ + weight,
                           !.frames[dpos].ds.sums[doff] = @ + pf1p[u * pitch + v] * weight,
                           !.frames[dpos].ds.wmaxs[doff] = IF weight > @ THEN weight ELSE @],
           LAMBDA d :
             IF WZCandidateTakes(d.frames[cpos].dsa, z)
             THEN [d EXCEPT !.frames[cpos].ds.weights[coff] = @ + weight,
                            !.frames[cpos].ds.sums[coff] = @ + srcp[y * pitch + x] * weight,
                            !.frames[cpos].ds.wmaxs[coff] = IF weight > @ THEN weight ELSE @]
             ELSE d))

\* The body of the z loop for centre (y, x): a slot flagged 1 in the centre frame's
\* dsa is skipped, any other is flagged 2 and scanned.
WZSlot(fc, y, x, z) ==
    LET dpos == getCachePos(fc, Az)
    IN IF fc.frames[dpos].dsa[z] = 1
       THEN fc
       ELSE ForLoop(WZStartY(z, y), WOZStopY(y), [fc EXCEPT !.frames[dpos].dsa[z] = 2],
                LAMBDA c, u : ForLoop(WZStartX(z, u, y, x), WOZStopX(x), c,
                    LAMBDA c2, v : WZPair(c2, y, x, z, u, v)))

\* The body of the x loop: the z loop, then the self term and the output pixel.
WZPixel(st, n, y, x) ==
    LET dpos == getCachePos(st.fc, Az)
    IN Strict(ForLoop(startz(n), stopz(n), st.fc, LAMBDA c, z : WZSlot(c, y, x, z)),
         LAMBDA fc1 :
           Strict(SelfTerm([ds |-> fc1.frames[dpos].ds, dstp |-> st.dstp], y * width + x,
                           getReadPtr(fc1.frames[dpos].pf)[y * pitch + x]),
             LAMBDA r : [fc |-> [fc1 EXCEPT !.frames[dpos].ds = r.ds], dstp |-> r.dstp]))

\* Mutant of WZMark: the mirror flag of the frame at slot i is not set.
WZMark_NoMirror(fc) ==
    ForLoop(0, fc.size - 1, fc,
        LAMBDA c, i :
            LET dpos == getCachePos(c, Az)
            IN IF c.frames[dpos].dsa[i] = 2
               THEN [c EXCEPT !.frames[dpos].dsa[i] = 1]
               ELSE c)

\* The closing loop: every slot i the centre frame flagged 2 becomes 1, and so does
\* the mirror flag j = size - 1 - i of the frame at slot i.
WZMark(fc) ==
    ForLoop(0, fc.size - 1, fc,
        LAMBDA c, i :
            LET dpos == getCachePos(c, Az)
                cpos == getCachePos(c, i)
                j == c.size - 1 - i
            IN IF c.frames[dpos].dsa[i] = 2
               THEN [[c EXCEPT !.frames[cpos].dsa[j] = 1] EXCEPT !.frames[dpos].dsa[i] = 1]
               ELSE c)

\* The plane loop of GetFrameWZ on the refilled cache fc0.
WZPlane(fc0, n, dstPF) ==
    ForLoop(0, height - 1, [fc |-> fc0, dstp |-> dstPF],
        LAMBDA s, y : ForLoop(0, width - 1, s, LAMBDA s2, x : WZPixel(s2, n, y, x)))

\* GetFrameWZ on slot t for frame n: the cache is realigned and refilled before the
\* output frame is allocated.
GetFrameWZ(t, n, alloc) ==
    Strict(Refill(t.fc, n, TRUE), LAMBDA fc0 :
        IF ~alloc
        THEN [t |-> [t EXCEPT !.fc = fc0], dst |-> nullptr, err |-> TRUE]
        ELSE Strict(WZPlane(fc0, n, NewFrame), LAMBDA st :
                 [t |-> [t EXCEPT !.fc = WZMark(st.fc)], dst |-> st.dstp, err |-> FALSE]))

-----------------------------------------------------------------------------
(* GetFrameWZB: temporal, per block *)

\* One tile of GetFrameWZB, centre (y, x): the candidates of every frame of the
\* window, the centre itself skipped in the centre frame only.
WZBTile(st, fc, n, y, x) ==
    LET srcp == getReadPtr(fc.frames[getCachePos(fc, Az)].pf)
    IN Strict(ForLoop(startz(n), stopz(n), ZeroBlock,
                  LAMBDA b1, z : BlkScan(b1, getReadPtr(fc.frames[getCachePos(fc, z)].pf),
                                         srcp, y, x, z = Az)),
         LAMBDA b : BlkNormalize(b, srcp, st.dstp, y, x))

\* The plane loop of GetFrameWZB on the refilled cache fc0.
WZBPlane(b0, fc0, n, dstPF) ==
    ForStep(By, height + By, Byd, [b |-> b0, dstp |-> dstPF],
        LAMBDA s, y : ForStep(Bx, width + Bx, Bxd, s,
            LAMBDA s2, x : WZBTile(s2, fc0, n, y, x)))

\* GetFrameWZB on slot t for frame n: the cache is realigned and refilled before the
\* output frame is allocated.
GetFrameWZB(t, n, alloc) ==
    Strict(Refill(t.fc, n, FALSE), LAMBDA fc0 :
        IF ~alloc
        THEN [t |-> [t EXCEPT !.fc = fc0], dst |-> nullptr, err |-> TRUE]
        ELSE Strict(WZBPlane([sumsb |-> t.sumsb, weightsb |-> t.weightsb, wmax |-> 0],
                             fc0, n, NewFrame),
                 LAMBDA st : [t |-> [t EXCEPT !.fc = fc0, !.sumsb = st.b.sumsb,
                                              !.weightsb = st.b.weightsb],
                              dst |-> st.dstp, err |-> FALSE]))

-----------------------------------------------------------------------------
(* The slots and the dispatch *)

\* nlThread::nlThread and the constructor's loop body for one slot.
nlThread ==
    [active   |-> 0,
     fc       |-> IF Az # 0 THEN nlCache(Az * 2 + 1, Bx > 0 \/ By > 0) ELSE nullptr,
     sumsb    |-> IF Bx # 0 \/ By # 0 THEN NewArray(Bxa) ELSE nullptr,
     weightsb |-> IF Bx # 0 \/ By # 0 THEN NewArray(Bxa) ELSE nullptr,
     ds       |-> IF Bx = 0 /\ By = 0 /\ Az = 0
                  THEN [sums    |-> NewArray(width * height),
                        weights |-> NewArray(width * height),
                        wmaxs   |-> NewArray(width * height)]
                  ELSE nullptr]

\* GetFrameByMethod: the variant the parameters select.
Method == IF Az # 0
          THEN (IF Bx # 0 \/ By # 0 THEN "WZB" ELSE "WZ")
          ELSE (IF Bx # 0 \/ By # 0 THEN "WOZB" ELSE "WOZ")

GetFrameByMethod(t, n, alloc) ==
    CASE Method = "WZB"  -> GetFrameWZB(t, n, alloc)
      [] Method = "WZ"   -> GetFrameWZ(t, n, alloc)
      [] Method = "WOZB" -> GetFrameWOZB(t, n, alloc)
      [] Method = "WOZ"  -> GetFrameWOZ(t, n, alloc)

-----------------------------------------------------------------------------
(* Clips and parameter sets *)

NumFrames == 3      \* frames per clip
MaxServe == 3       \* requests served by one slot in the sequential specifications

\* Pixel i of frame f of the clip of a given kind.
ClipKinds == {"flat", "ramp", "impulse", "checker"}
ClipPixel(kind, f, i) ==
    CASE kind = "flat"    -> 50
      [] kind = "ramp"    -> 10 + 20 * i + 5 * f
      [] kind = "impulse" -> IF i = f THEN 50 ELSE 10
      [] kind = "checker" -> IF (i + f) % 2 = 0 THEN 10 ELSE 50

Clip(kind, w, ht, nf) ==
    [f \in 0..(nf - 1) |-> [i \in 0..(w * ht - 1) |-> ClipPixel(kind, f, i)]]

Radii == 0..MaxRadius
\* (distance metric, h, a * a): SAD and SSD at a moderate strength, SAD at a strength so
\* small that dissimilar patches weigh nothing.
Strengths == {<<FALSE, 10, 1>>, <<TRUE, 10, 2>>, <<FALSE, 1, 1>>}

\* The parameter sets the constructor accepts (Sx >= Bx, Sy >= By, all >= 0,
\* a > 0, h > 0) for the temporal radii azs and the plane sizes dims.
Cfgs(azs, dims) ==
    { [Ax |-> ax, Ay |-> ay, Az |-> az, Sx |-> sx, Sy |-> sy, Bx |-> bx, By |-> by,
       ssd |-> m[1], a2 |-> m[3], h |-> m[2],
       width |-> d[1], height |-> d[2], numFrames |-> NumFrames] :
      ax \in Radii, ay \in Radii, az \in azs, sx \in Radii, sy \in Radii,
      bx \in Radii, by \in Radii, m \in Strengths, d \in dims }

Admissible(c) == c.Sx >= c.Bx /\ c.Sy >= c.By

SpatialCfgs == {c \in Cfgs({0}, (1..MaxWidth) \X (1..MaxHeight)) : Admissible(c)}

NoRes == [n |-> -1, thread |-> -1, alloc |-> TRUE, pre |-> nullptr, dst |-> nullptr,
          err |-> FALSE]

-----------------------------------------------------------------------------
(* The spatial variants on one slot, request after request *)

SpatialInit ==
    /\ cfg \in SpatialCfgs
    /\ \E kind \in ClipKinds : node = Clip(kind, cfg.width, cfg.height, cfg.numFrames)
    /\ threads = [i \in {0} |-> nlThread]
    /\ calls = << >>
    /\ hist = [i \in {0} |-> << >>]
    /\ res = NoRes
    /\ probe = << >>

\* One GetFrame on slot 0, alone: GetFrameByMethod for frame n.
Serve(n) ==
    /\ Len(hist[0]) < MaxServe
    /\ \E r \in {GetFrameByMethod(threads[0], n, TRUE)} :
          /\ threads' = [threads EXCEPT ![0] = r.t]
          /\ res' = [n |-> n, thread |-> 0, alloc |-> TRUE, pre |-> threads[0],
                     dst |-> r.dst, err |-> r.err]
    /\ hist' = [hist EXCEPT ![0] = Append(@, n)]
    /\ UNCHANGED <<cfg, node, calls, probe>>

SpatialNext == \E n \in 0..(numFrames - 1) : Serve(n)

SpecSpatial == SpatialInit /\ [][SpatialNext]_vars

-----------------------------------------------------------------------------
(* The temporal variants on one slot, request after request *)

MaxAz == 1          \* temporal radius
MaxTWidth == 2      \* plane sizes of the temporal specifications
MaxTHeight == 2

TemporalCfgs ==
    {c \in Cfgs(1..MaxAz, (1..MaxTWidth) \X (1..MaxTHeight)) : Admissible(c)}

TemporalInit ==
    /\ cfg \in TemporalCfgs
    /\ \E kind \in ClipKinds : node = Clip(kind, cfg.width, cfg.height, cfg.numFrames)
    /\ threads = [i \in {0} |-> nlThread]
    /\ calls = << >>
    /\ hist = [i \in {0} |-> << >>]
    /\ res = NoRes
    /\ probe = << >>

TemporalNext == \E n \in 0..(numFrames - 1) : Serve(n)

SpecTemporal == TemporalInit /\ [][TemporalNext]_vars

-----------------------------------------------------------------------------
(* The per-pixel variants on one slot, request after request *)

PixelCfgs ==
    {c \in Cfgs(0..MaxAz, (1..MaxTWidth) \X (1..MaxTHeight)) : c.Bx = 0 /\ c.By = 0}

PixelInit ==
    /\ cfg \in PixelCfgs
    /\ \E kind \in ClipKinds : node = Clip(kind, cfg.width, cfg.height, cfg.numFrames)
    /\ threads = [i \in {0} |-> nlThread]
    /\ calls = << >>
    /\ hist = [i \in {0} |-> << >>]
    /\ res = NoRes
    /\ probe = << >>

PixelNext == \E n \in 0..(numFrames - 1) : Serve(n)

SpecPixel == PixelInit /\ [][PixelNext]_vars

-----------------------------------------------------------------------------
(* The places the loops read and write, one loop position at a time *)

\* An access is <<array, row, column>> for a plane ("s1" the candidate's, "s2" the
\* centre's, "dst" the output) and <<array, 0, index>> for the kernel table "gw",
\* the block scratch pair "blk", a plane's accumulators "ds", a frame's flags
\* "dsa" and the per-call lookup tables "lut".

\* The v loop body of the pixel variants: the patch, the candidate's and the
\* centre's pixel, and both accumulators.
PixelPairAccess(u, v, y, x) ==
    PatchReads(u, v, y, x)
    \cup {<<"s1", u, v>>, <<"s2", y, x>>,
          <<"ds", 0, u * width + v>>, <<"ds", 0, y * width + x>>}

\* The self term of a pixel.
PixelSelfAccess(y, x) ==
    {<<"s2", y, x>>, <<"dst", y, x>>, <<"ds", 0, y * width + x>>}

\* The z loop body of GetFrameWZ: the flags and the lookup tables.
SlotAccess(z) ==
    {<<"dsa", 0, z>>, <<"dsa", 0, Azdm1 - z>>, <<"lut", 0, z>>, <<"lut", 0, Az>>}

\* The v loop body of the block variants: the patch and the smear of the weight
\* over the block footprint.
BlkPairAccess(u, v, y, x) ==
    PatchReads(u, v, y, x)
    \cup UNION { { <<"s1", u + j, v + k>>, <<"blk", 0, (j + By) * Bxd + Bx + k>> } :
                 <<j, k>> \in (-By..BlkB(u, y)) \X (-Bx..BlkR(v, x)) }

\* The end of a tile: the source and the output pixels and the scratch pair.
BlkTileAccess(y, x) ==
    UNION { { <<"s2", y - By + j, x - Bx + k>>, <<"dst", y - By + j, x - Bx + k>>,
              <<"blk", 0, j * Bxd + k>> } :
            <<j, k>> \in (0..(BlkTrY(y) - 1)) \X (0..(BlkTrX(x) - 1)) }

\* The tile centres the y and x loops of the block variants visit.
BlkCentresY == {y \in By..(height + By - 1) : (y - By) % Byd = 0}
BlkCentresX == {x \in Bx..(width + Bx - 1) : (x - Bx) % Bxd = 0}

GeomCfgs ==
    {c \in Cfgs(0..MaxAz, (1..MaxWidth) \X (1..MaxHeight)) :
        Admissible(c) /\ ~c.ssd /\ c.h = 10}

GeomInit ==
    /\ cfg \in GeomCfgs
    /\ node = Clip("flat", cfg.width, cfg.height, cfg.numFrames)
    /\ threads = [i \in {0} |-> nlThread]
    /\ calls = << >>
    /\ hist = [i \in {0} |-> << >>]
    /\ res = NoRes
    /\ probe = << >>

At(step, n, y, x, z, u, v, acc) ==
    /\ probe = << >>
    /\ probe' = [step |-> step, n |-> n, y |-> y, x |-> x, z |-> z, u |-> u, v |-> v,
                 acc |-> acc]
    /\ UNCHANGED <<cfg, node, threads, calls, hist, res>>

\* A pair of GetFrameWOZ.
ProbeWOZ ==
    /\ Method = "WOZ"
    /\ \E y \in 0..(height - 1), x \in 0..(width - 1) :
       \E u \in y..WOZStopY(y) :
       \E v \in WOZStartX(u, y, x)..WOZStopX(x) :
           At("pair", 0, y, x, Az, u, v, PixelPairAccess(u, v, y, x))

\* A pair of GetFrameWZ for frame n.
ProbeWZ ==
    /\ Method = "WZ"
    /\ \E n \in 0..(numFrames - 1), y \in 0..(height - 1), x \in 0..(width - 1) :
       \E z \in startz(n)..stopz(n) :
       \E u \in WZStartY(z, y)..WOZStopY(y) :
       \E v \in WZStartX(z, u, y, x)..WOZStopX(x) :
           At("pair", n, y, x, z, u, v, PixelPairAccess(u, v, y, x) \cup SlotAccess(z))

\* The self term of a pixel in GetFrameWOZ and GetFrameWZ.
ProbeSelf ==
    /\ Method \in {"WOZ", "WZ"}
    /\ \E y \in 0..(height - 1), x \in 0..(width - 1) :
           At("self", 0, y, x, Az, y, x, PixelSelfAccess(y, x))

\* A candidate of a tile of GetFrameWOZB.
ProbeWOZB ==
    /\ Method = "WOZB"
    /\ \E y \in BlkCentresY, x \in BlkCentresX :
       \E u \in BlkStartY(y)..BlkStopY(y), v \in BlkStartX(x)..BlkStopX(x) :
           /\ ~(u = y /\ v = x)
           /\ At("pair", 0, y, x, Az, u, v, BlkPairAccess(u, v, y, x))

\* A candidate of a tile of GetFrameWZB for frame n.
ProbeWZB ==
    /\ Method = "WZB"
    /\ \E n \in 0..(numFrames - 1), y \in BlkCentresY, x \in BlkCentresX :
       \E z \in startz(n)..stopz(n) :
       \E u \in BlkStartY(y)..BlkStopY(y), v \in BlkStartX(x)..BlkStopX(x) :
           /\ ~(z = Az /\ u = y /\ v = x)
           /\ At("pair", n, y, x, z, u, v,
                 BlkPairAccess(u, v, y, x) \cup {<<"lut", 0, z>>})

\* The end of a tile in GetFrameWOZB and GetFrameWZB.
ProbeTile ==
    /\ Method \in {"WOZB", "WZB"}
    /\ \E y \in BlkCentresY, x \in BlkCentresX :
           At("self", 0, y, x, Az, y, x, BlkTileAccess(y, x))

GeomNext == ProbeWOZ \/ ProbeWZ \/ ProbeSelf \/ ProbeWOZB \/ ProbeWZB \/ ProbeTile

SpecGeom == GeomInit /\ [][GeomNext]_vars

-----------------------------------------------------------------------------
(* The block variants tile by tile, on planes of several tiles *)

TileMaxRadius == 2      \* block radius
TileMaxWidth == 7       \* plane sizes
TileMaxHeight == 4

TileCfgs ==
    { [Ax |-> ax, Ay |-> 0, Az |-> az, Sx |-> bx, Sy |-> by, Bx |-> bx, By |-> by,
       ssd |-> FALSE, a2 |-> 1, h |-> 10,
       width |-> w, height |-> ht, numFrames |-> NumFrames] :
      ax \in 0..1, az \in 0..1, bx \in 0..TileMaxRadius, by \in 0..TileMaxRadius,
      w \in 1..TileMaxWidth, ht \in 1..TileMaxHeight }

TileInit ==
    /\ cfg \in {c \in TileCfgs : c.Bx # 0 \/ c.By # 0}
    /\ node = Clip("ramp", cfg.width, cfg.height, cfg.numFrames)
    /\ threads = [i \in {0} |-> nlThread]
    /\ calls = << >>
    /\ hist = [i \in {0} |-> << >>]
    /\ res = NoRes
    /\ probe = << >>

\* The end of one tile, or one GetFrame for the first frame.
TileNext == ProbeTile \/ Serve(0)

SpecTiles == TileInit /\ [][TileNext]_vars

-----------------------------------------------------------------------------
(* GetFrame: concurrent calls claiming, using and releasing the slots *)

MaxThreads == 2     \* slots (the host's thread count)
NumCalls == 3       \* GetFrame calls in flight

Calls == 1..NumCalls
numThreads == Cardinality(DOMAIN threads)

\* All four variants on a plane of two pixels.
ConcCfgs ==
    {c \in Cfgs(0..MaxAz, {<<2, 1>>}) :
        /\ Admissible(c)
        /\ c.Ax = 1 /\ c.Sx = 1 /\ c.Ay = 0 /\ c.Sy = 0 /\ c.By = 0
        /\ ~c.ssd /\ c.h = 10}

NoCall == [pc |-> "idle", n |-> -1, threadId |-> -1, alloc |-> TRUE, dst |-> nullptr,
           err |-> FALSE, seq |-> 0]

Init ==
    /\ cfg \in ConcCfgs
    /\ \E kind \in {"ramp", "impulse"} :
           node = Clip(kind, cfg.width, cfg.height, cfg.numFrames)
    /\ \E nt \in 1..MaxThreads : threads = [i \in 0..(nt - 1) |-> nlThread]
    /\ calls = [c \in Calls |-> NoCall]
    /\ hist = [i \in DOMAIN threads |-> << >>]
    /\ res = NoRes
    /\ probe = << >>

\* The slots the scan under the mutex finds free.
FreeSlots_All == DOMAIN threads
\* Mutant of FreeSlots: the scan starts at slot 1.
FreeSlots_FromOne == {i \in DOMAIN threads : i >= 1 /\ threads[i].active = 0}
FreeSlots == {i \in DOMAIN threads : threads[i].active = 0}

\* The host calls GetFrame( n ): threadId = -1.
Request(c, n) ==
    /\ calls[c].pc = "idle"
    /\ calls' = [calls EXCEPT ![c] = [NoCall EXCEPT !.pc = "claim", !.n = n]]
    /\ UNCHANGED <<cfg, node, threads, hist, res, probe>>

\* One pass of the do-while under the mutex that finds a free slot: the first one
\* is marked active and taken.
Claim(c) ==
    /\ calls[c].pc = "claim"
    /\ FreeSlots # {}
    /\ LET i == CHOOSE i \in FreeSlots : \A j \in FreeSlots : i <= j
       IN /\ threads' = [threads EXCEPT ![i].active = 1]
          /\ calls' = [calls EXCEPT ![c].threadId = i, ![c].pc = "run"]
    /\ UNCHANGED <<cfg, node, hist, res, probe>>

\* One pass of the do-while that finds every slot active: threadId stays -1 and the
\* loop goes round again.
Spin(c) ==
    /\ calls[c].pc = "claim"
    /\ FreeSlots = {}
    /\ UNCHANGED vars

\* GetFrameByMethod on the claimed slot; the host's newVideoFrame succeeds or not.
Run(c) ==
    /\ calls[c].pc = "run"
    /\ \E alloc \in BOOLEAN :
       \E r \in {GetFrameByMethod(threads[calls[c].threadId], calls[c].n, alloc)} :
          /\ threads' = [threads EXCEPT ![calls[c].threadId] = r.t]
          /\ calls' = [calls EXCEPT ![c].pc = "release", ![c].alloc = alloc,
                                    ![c].dst = r.dst, ![c].err = r.err,
                                    ![c].seq = Len(hist[calls[c].threadId]) + 1]
          /\ res' = [n |-> calls[c].n, thread |-> calls[c].threadId, alloc |-> alloc,
                     pre |-> threads[calls[c].threadId], dst |-> r.dst, err |-> r.err]
    /\ hist' = [hist EXCEPT ![calls[c].threadId] = Append(@, calls[c].n)]
    /\ UNCHANGED <<cfg, node, probe>>

\* Mutant of ReleasedActive: a call that got no frame leaves its slot marked.
ReleasedActive_OnSuccess(dst) == IF dst = nullptr THEN 1 ELSE 0
\* threads[threadId].active = 0, whatever GetFrameByMethod returned.
ReleasedActive(dst) == 0

\* The write of active without the mutex, and the return of dst.
Release(c) ==
    /\ calls[c].pc = "release"
    /\ threads' = [threads EXCEPT ![calls[c].threadId].active = ReleasedActive(calls[c].dst)]
    /\ calls' = [calls EXCEPT ![c].pc = "done"]
    /\ UNCHANGED <<cfg, node, hist, res, probe>>

Next ==
    \E c \in Calls :
        \/ \E n \in 0..(numFrames - 1) : Request(c, n)
        \/ Claim(c)
        \/ Spin(c)
        \/ Run(c)
        \/ Release(c)

Spec == Init /\ [][Next]_vars

\* The spatial per-pixel variant only, for the runs that never end.
FairCfgs == {c \in ConcCfgs : c.Az = 0 /\ c.Bx = 0}

FairInit ==
    /\ cfg \in FairCfgs
    /\ node = Clip("ramp", cfg.width, cfg.height, cfg.numFrames)
    /\ \E nt \in 1..MaxThreads : threads = [i \in 0..(nt - 1) |-> nlThread]
    /\ calls = [c \in Calls |-> NoCall]
    /\ hist = [i \in DOMAIN threads |-> << >>]
    /\ res = NoRes
    /\ probe = << >>

\* GetFrame has returned and the host's thread is ready for its next call; the
\* record of what the slots served starts afresh.
Again(c) ==
    /\ calls[c].pc = "done"
    /\ calls' = [calls EXCEPT ![c] = NoCall]
    /\ hist' = [i \in DOMAIN threads |-> << >>]
    /\ res' = NoRes
    /\ UNCHANGED <<cfg, node, threads, probe>>

\* The calls of the host ask for the first frame.
FairNext ==
    \E c \in Calls :
        \/ Request(c, 0)
        \/ Claim(c)
        \/ Spin(c)
        \/ Run(c)
        \/ Release(c)
        \/ Again(c)

\* A thread inside GetFrame keeps running: a pass of the do-while that can find a
\* slot is made, GetFrameByMethod returns, and the release follows.  The host is
\* free to make further calls or not.
SpecFair ==
    /\ FairInit
    /\ [][FairNext]_vars
    /\ \A c \in Calls : WF_vars(Claim(c)) /\ WF_vars(Run(c)) /\ WF_vars(Release(c))

-----------------------------------------------------------------------------
(* TNLMeans::TNLMeans: the checks of the arguments and the construction *)

\* A double argument is an integer here or NaN (c.nan names the arguments that are
\* NaN); the comparison NaN <= 0.0 is false.
LeqZero(c, f) == f \notin c.nan /\ c[f] <= 0

\* The checks in the order of the source: <<the condition that throws, the field
\* the message starts with, the message>>.
Checks(c) ==
    << <<c.family = "compat", "format", "only planar formats are supported">>,
       <<c.bits # 8,    "format", "only 8-bit formats are supported">>,
       <<LeqZero(c, "h"), "h",  "h must be greater than 0">>,
       <<LeqZero(c, "a"), "a",  "a must be greater than 0">>,
       <<c.Ax < 0,      "ax", "ax must be greater than or equal to 0">>,
       <<c.Ay < 0,      "ay", "ay must be greater than or equal to 0">>,
       <<c.Az < 0,      "az", "az must be greater than or equal to 0">>,
       <<c.Bx < 0,      "bx", "bx must be greater than or equal to 0">>,
       <<c.By < 0,      "by", "by must be greater than or equal to 0">>,
       <<c.Sx < 0,      "sx", "sx must be greater than or equal to 0">>,
       <<c.Sy < 0,      "sy", "sy must be greater than or equal to 0">>,
       <<c.Sx < c.Bx,   "sx", "sx must be greater than or equal to bx">>,
       <<c.Sy < c.By,   "sy", "sy must be greater than or equal to by">> >>

Passed == <<FALSE, "", "">>

\* Mutant of Validate: the check of Sy against By is left out.
Validate_NoSyBy(c) ==
    LET F == {i \in 1..(Len(Checks(c)) - 1) : Checks(c)[i][1]}
    IN IF F = {} THEN Passed ELSE Checks(c)[CHOOSE i \in F : \A j \in F : i <= j]

\* The first check that fails throws bad_param; Passed when none fails.
Validate(c) ==
    LET F == {i \in 1..Len(Checks(c)) : Checks(c)[i][1]}
    IN IF F = {} THEN Passed ELSE Checks(c)[CHOOSE i \in F : \A j \in F : i <= j]

\* The arguments a caller may pass, in range or not, on a clip of one pixel: every
\* combination of the integer arguments on a planar 8-bit clip, and the clip
\* formats with a few of the arguments.
Doubles == {<<-1, FALSE>>, <<0, FALSE>>, <<1, FALSE>>, <<0, TRUE>>}
RawArgs ==
    { [Ax |-> ax, Ay |-> ay, Az |-> az, Sx |-> sx, Sy |-> sy, Bx |-> bx, By |-> by,
       ssd |-> FALSE, a |-> a[1], a2 |-> a[1] * a[1], h |-> hh[1],
       nan |-> {f \in {"a", "h"} : (f = "a" /\ a[2]) \/ (f = "h" /\ hh[2])},
       family |-> "yuv", bits |-> 8,
       width |-> 1, height |-> 1, numFrames |-> NumFrames] :
      ax \in -1..MaxRadius, ay \in -1..MaxRadius, az \in -1..MaxRadius,
      sx \in -1..MaxRadius, sy \in -1..MaxRadius, bx \in -1..MaxRadius,
      by \in -1..MaxRadius, a \in Doubles, hh \in Doubles }
    \cup
    { [Ax |-> 0, Ay |-> 0, Az |-> az, Sx |-> 0, Sy |-> 0, Bx |-> 0, By |-> by,
       ssd |-> FALSE, a |-> 1, a2 |-> 1, h |-> hh, nan |-> {},
       family |-> fam, bits |-> b,
       width |-> 1, height |-> 1, numFrames |-> NumFrames] :
      az \in 0..MaxRadius, by \in 0..MaxRadius, hh \in {0, 1},
      fam \in {"yuv", "gray", "compat"}, b \in {8, 16} }

NotBuilt == [thrown |-> "", field |-> "", what |-> "", built |-> FALSE]

CtorInit ==
    /\ cfg \in RawArgs
    /\ node = Clip("flat", 1, 1, NumFrames)
    /\ threads = nullptr
    /\ calls = << >>
    /\ hist = << >>
    /\ res = NotBuilt
    /\ probe = << >>

\* A check fails: bad_param with its message, before any slot is allocated.
Reject ==
    /\ res = NotBuilt
    /\ \E v \in {Validate(cfg)} :
         /\ v # Passed
         /\ res' = [thrown |-> "bad_param", field |-> v[2], what |-> v[3],
                    built |-> FALSE]
    /\ UNCHANGED <<cfg, node, threads, calls, hist, probe>>

\* Every check passed and an allocation fails: bad_alloc naming the structure; the
\* slots allocated so far go with the local unique_ptr.
AllocFail ==
    /\ res = NotBuilt
    /\ Validate(cfg) = Passed
    /\ \E what \in {"threads", "nlFrame", "nlCache", "sumsb", "weightsb", "sums",
                    "weights", "wmaxs", "gw"} :
           res' = [thrown |-> "bad_alloc", field |-> "", what |-> what,
                   built |-> FALSE]
    /\ UNCHANGED <<cfg, node, threads, calls, hist, probe>>

\* Every check passed and every allocation succeeded: this->threads holds the slots.
Construct ==
    /\ res = NotBuilt
    /\ Validate(cfg) = Passed
    /\ \E nt \in 1..MaxThreads : threads' = [i \in 0..(nt - 1) |-> nlThread]
    /\ res' = [thrown |-> "", field |-> "", what |-> "", built |-> TRUE]
    /\ UNCHANGED <<cfg, node, calls, hist, probe>>

CtorNext == Reject \/ AllocFail \/ Construct

SpecCtor == CtorInit /\ [][CtorNext]_vars

-----------------------------------------------------------------------------
(* The calls to the frame source: getFrameFilter and freeFrame *)

\* One call to the API: op is "get" or "free", num the source frame, use the place
\* of the call ("dst": newVideoFrame, "src": the spatial source frame, "cache": a
\* cache slot), i the frame number it was fetched for.
ApiCall(op, num, use, i) == [op |-> op, num |-> num, use |-> use, i |-> i]

\* TNLMeans::newVideoFrame: the source frame is fetched as the template of the new
\* frame and freed, whether or not the allocation succeeded.
NewVideoFrameCalls(n) ==
    <<ApiCall("get", mapn(n), "dst", n), ApiCall("free", mapn(n), "dst", n)>>

\* Mutant of RefillCalls: the frame a slot drops is not freed.
RefillCalls_NoFree(fc, n) ==
    ForLoop(n - Az, n + Az, [fc |-> resetCacheStart(fc, n - Az, n + Az), ev |-> << >>],
        LAMBDA s, i :
            LET nl == s.fc.frames[getCachePos(s.fc, i - n + Az)]
            IN [fc |-> RefillOne(s.fc, n, i, FALSE),
                ev |-> IF nl.fnum # i
                       THEN s.ev \o <<ApiCall("get", mapn(i), "cache", i)>>
                       ELSE s.ev]).ev

\* The refill loop: a slot whose fnum is not i frees its frame (freeFrame of a null
\* reference does nothing) and fetches frame mapn(i).
RefillCalls(fc, n) ==
    ForLoop(n - Az, n + Az, [fc |-> resetCacheStart(fc, n - Az, n + Az), ev |-> << >>],
        LAMBDA s, i :
            LET nl == s.fc.frames[getCachePos(s.fc, i - n + Az)]
            IN [fc |-> RefillOne(s.fc, n, i, FALSE),
                ev |-> IF nl.fnum # i
                       THEN s.ev
                            \o (IF nl.pf # nullptr
                                THEN <<ApiCall("free", nl.pf.num, "cache", nl.fnum)>>
                                ELSE << >>)
                            \o <<ApiCall("get", mapn(i), "cache", i)>>
                       ELSE s.ev]).ev

\* The calls of one GetFrameByMethod on slot t, in order.
FrameCalls(t, n, alloc) ==
    IF Az # 0
    THEN RefillCalls(t.fc, n) \o NewVideoFrameCalls(n)
    ELSE NewVideoFrameCalls(n)
         \o (IF alloc
             THEN <<ApiCall("get", mapn(n), "src", n), ApiCall("free", mapn(n), "src", n)>>
             ELSE << >>)

\* nlFrame::clean for every frame of the slot's cache (~TNLMeans, ~nlThread,
\* ~nlCache): a frame still referenced is freed.
CleanCalls(t) ==
    IF t.fc = nullptr THEN << >>
    ELSE ForLoop(0, t.fc.size - 1, << >>,
             LAMBDA ev, i : IF t.fc.frames[i].pf # nullptr
                            THEN Append(ev, ApiCall("free", t.fc.frames[i].pf.num, "cache",
                                                    t.fc.frames[i].fnum))
                            ELSE ev)

-----------------------------------------------------------------------------
(* One slot on a clip of one pixel: the cache over sequences of requests *)

CacheFrames == 5    \* frames of the clip
\* Temporal radii: none, small ones, and the one whose first window starts at the
\* frame number of an empty slot (0 - Az = NoFNum).
CacheAzs == {0, 1, 2, -NoFNum}

CacheCfgs ==
    { [Ax |-> 0, Ay |-> 0, Az |-> az, Sx |-> b, Sy |-> 0, Bx |-> b, By |-> 0,
       ssd |-> FALSE, a2 |-> 1, h |-> 10,
       width |-> 1, height |-> 1, numFrames |-> CacheFrames] :
      az \in CacheAzs, b \in 0..1 }

\* probe is the record of the calls to the frame source: log holds every call so
\* far, mark the length of log before the last request, crashed whether a null
\* frame reference was read.
NoCalls == [log |-> << >>, mark |-> 0, crashed |-> FALSE]

CacheInit ==
    /\ cfg \in CacheCfgs
    /\ node = Clip("ramp", 1, 1, CacheFrames)
    /\ threads = [i \in {0} |-> nlThread]
    /\ calls = << >>
    /\ hist = [i \in {0} |-> << >>]
    /\ res = NoRes
    /\ probe = NoCalls

\* The loops read the plane pointer of every slot of the cache (pfplut) before they
\* start: a slot without a frame makes that a read through a null reference.
NullRead(fc) == \E i \in 0..(fc.size - 1) : fc.frames[i].pf = nullptr

\* One GetFrame on slot 0, alone, with its calls to the frame source.
CacheServe(n, alloc) ==
    /\ threads # nullptr
    /\ ~probe.crashed
    /\ Len(hist[0]) < MaxServe
    /\ \E r \in {GetFrameByMethod(threads[0], n, alloc)} :
          /\ threads' = [threads EXCEPT ![0] = r.t]
          /\ res' = [n |-> n, thread |-> 0, alloc |-> alloc, pre |-> threads[0],
                     dst |-> r.dst, err |-> r.err]
    /\ hist' = [hist EXCEPT ![0] = Append(@, n)]
    /\ probe' = [probe EXCEPT !.log = @ \o FrameCalls(threads[0], n, alloc),
                              !.mark = Len(probe.log)]
    /\ UNCHANGED <<cfg, node, calls>>

\* The read through a null reference ends the process instead (the other outcome,
\* a pointer that is never used, is CacheServe).
Crash(n) ==
    /\ threads # nullptr
    /\ ~probe.crashed
    /\ Len(hist[0]) < MaxServe
    /\ Az # 0
    /\ \E fc0 \in {Refill(threads[0].fc, n, Bx = 0 /\ By = 0)} :
          /\ NullRead(fc0)
          /\ threads' = [threads EXCEPT ![0].fc = fc0]
    /\ res' = [n |-> n, thread |-> 0, alloc |-> TRUE, pre |-> threads[0],
               dst |-> nullptr, err |-> FALSE]
    /\ hist' = [hist EXCEPT ![0] = Append(@, n)]
    /\ probe' = [probe EXCEPT !.log = @ \o FrameCalls(threads[0], n, TRUE),
                              !.mark = Len(probe.log), !.crashed = TRUE]
    /\ UNCHANGED <<cfg, node, calls>>

\* TNLMeans::~TNLMeans: the slots are deleted.
Teardown ==
    /\ threads # nullptr
    /\ ~probe.crashed
    /\ probe' = [probe EXCEPT !.log = @ \o CleanCalls(threads[0])]
    /\ threads' = nullptr
    /\ UNCHANGED <<cfg, node, calls, hist, res>>

CacheNext ==
    \/ \E n \in 0..(numFrames - 1), alloc \in BOOLEAN : CacheServe(n, alloc)
    \/ \E n \in 0..(numFrames - 1) : Crash(n)
    \/ Teardown

SpecCache == CacheInit /\ [][CacheNext]_vars

-----------------------------------------------------------------------------
(* A brute-force reference of the spatial per-pixel result, by sets *)

SumSet(S, F(_)) ==
    LET RECURSIVE R(_)
        R(T) == IF T = {} THEN 0
                ELSE LET e == CHOOSE e \in T : TRUE IN F(e) + R(T \ {e})
    IN R(S)

MaxSet(S, F(_)) ==
    LET RECURSIVE R(_)
        R(T) == IF T = {} THEN 0
                ELSE LET e == CHOOSE e \in T : TRUE IN Max(F(e), R(T \ {e}))
    IN R(S)

Pixels == 0..(width * height - 1)
Row(p) == p \div width
Col(p) == p % width
InPlane(r, c) == 0 <= r /\ r < height /\ 0 <= c /\ c < width

\* The pixels q other than p inside p's (Ax, Ay) window.
RefWindow(p) ==
    {q \in Pixels : q # p /\ Abs(Row(q) - Row(p)) <= Ay /\ Abs(Col(q) - Col(p)) <= Ax}

\* The patch offsets at which both p and q have a pixel.
RefOffsets(p, q) ==
    {o \in (-Sy..Sy) \X (-Sx..Sx) :
        /\ InPlane(Row(p) + o[1], Col(p) + o[2])
        /\ InPlane(Row(q) + o[1], Col(q) + o[2])}

RefKernel(o) == ExpFix(o[1] * o[1] + o[2] * o[2], 2 * a2)

RefAt(pl, p, o) == pl[(Row(p) + o[1]) * width + Col(p) + o[2]]

\* The weight of the unordered pair {p, q} of plane pl.
RefWeight(pl, p, q) ==
    LET O == RefOffsets(p, q)
        diff == SumSet(O, LAMBDA o :
                    IF ssd
                    THEN (RefAt(pl, p, o) - RefAt(pl, q, o)) * (RefAt(pl, p, o) - RefAt(pl, q, o))
                         * RefKernel(o)
                    ELSE Abs(RefAt(pl, p, o) - RefAt(pl, q, o)) * RefKernel(o))
        gweights == SumSet(O, LAMBDA o : RefKernel(o))
    IN ExpFix(diff, IF ssd THEN gweights * h * h ELSE gweights * h)

RefSum(pl, p) == SumSet(RefWindow(p), LAMBDA q : RefWeight(pl, p, q) * pl[q])
RefWeightSum(pl, p) == SumSet(RefWindow(p), LAMBDA q : RefWeight(pl, p, q))
RefMax(pl, p) == MaxSet(RefWindow(p), LAMBDA q : RefWeight(pl, p, q))
RefSelf(pl, p) == IF RefMax(pl, p) = 0 THEN WOne ELSE RefMax(pl, p)

\* The plane the last request read, and whether a spatial per-pixel request was served.
SrcPlane == node[mapn(res.n)]
ServedWOZ == Method = "WOZ" /\ res.n >= 0 /\ ~res.err
ServedWOZB == Method = "WOZB" /\ res.n >= 0 /\ ~res.err

\* C5: after GetFrameWOZ every pixel's sum, weight and maximum weight are those of
\* the brute-force reference (each unordered pair of the window scored once and
\* added to both its pixels) plus the self term, and the output is their quotient.
C5_MatchesBruteForce ==
    ServedWOZ =>
        \A p \in Pixels :
            /\ threads[0].ds.wmaxs[p] = RefMax(SrcPlane, p)
            /\ threads[0].ds.weights[p] = RefWeightSum(SrcPlane, p) + RefSelf(SrcPlane, p)
            /\ threads[0].ds.sums[p] =
                   RefSum(SrcPlane, p) + RefSelf(SrcPlane, p) * SrcPlane[p]
            /\ res.dst[p] = Normalize(threads[0].ds.sums[p], threads[0].ds.weights[p])

\* A served request in which some pixel has a pair above it, one below it and a
\* clipped patch, with a weight that is neither 0 nor 1.0.
C5_Witness ==
    /\ ServedWOZ /\ Ax > 0 /\ Ay > 0 /\ Sx > 0 /\ Sy > 0 /\ height > 1 /\ width > 2
    /\ \E p \in Pixels : threads[0].ds.wmaxs[p] > 0 /\ threads[0].ds.wmaxs[p] < WOne
    /\ \E p \in Pixels : threads[0].ds.weights[p] > 3 * threads[0].ds.wmaxs[p]

IsFlat(pl) == \A p \in DOMAIN pl, q \in DOMAIN pl : pl[p] = pl[q]

\* C6: GetFrameWOZ on a constant plane returns that plane, whatever the radii,
\* the strength and the metric.
C6_FlatIsFixed == (ServedWOZ /\ IsFlat(SrcPlane)) => res.dst = SrcPlane

C6_Witness ==
    /\ ServedWOZ /\ IsFlat(SrcPlane) /\ res.dst = SrcPlane
    /\ Ax > 0 /\ Ay > 0 /\ width > 1 /\ height > 1 /\ ssd
    /\ \E p \in Pixels : threads[0].ds.weights[p] > 2 * WOne

\* The tile centres of the block variants and the pixels of the tile of a centre.
TileCentres ==
    {c \in (By..(height + By - 1)) \X (Bx..(width + Bx - 1)) :
        (c[1] - By) % Byd = 0 /\ (c[2] - Bx) % Bxd = 0}
TilePixels(c) ==
    {p \in Pixels : /\ Row(p) >= c[1] - By /\ Row(p) <= c[1] + By
                    /\ Col(p) >= c[2] - Bx /\ Col(p) <= c[2] + Bx}

\* C7: with no candidate at all (Ax = Ay = 0) both spatial variants return the
\* input, the self weight being 1.0; and a pixel (a tile) none of whose candidates
\* has a weight above 0 comes out as it went in.
C7_WmaxFallback ==
    /\ (ServedWOZ /\ Ax = 0 /\ Ay = 0) =>
           /\ res.dst = SrcPlane
           /\ \A p \in Pixels : threads[0].ds.weights[p] = WOne
    /\ (ServedWOZB /\ Ax = 0 /\ Ay = 0) => res.dst = SrcPlane
    /\ ServedWOZ =>
           \A p \in Pixels : threads[0].ds.wmaxs[p] = 0 => res.dst[p] = SrcPlane[p]
    /\ ServedWOZB =>
           \A c \in TileCentres :
               BlkScan(ZeroBlock, SrcPlane, SrcPlane, c[1], c[2], TRUE).wmax = 0 =>
                   \A p \in TilePixels(c) : res.dst[p] = SrcPlane[p]

\* A block request with no candidates whose last tile is clipped, on a plane that
\* is not constant.
C7_Witness ==
    /\ ServedWOZB /\ Ax = 0 /\ Ay = 0 /\ Bx > 0 /\ By > 0
    /\ width % Bxd # 0 /\ height % Byd # 0 /\ ~IsFlat(SrcPlane)
    /\ res.dst = SrcPlane

\* C8: the block algorithm run with Bx = By = 0 (tiles of one pixel) gives every
\* pixel the sum, weight, maximum weight and output GetFrameWOZ gives it; the
\* dispatch itself sends Bx = By = 0 to GetFrameWOZ.
C8_BlockZeroIsPixel ==
    (res.n >= 0 /\ ~res.err /\ Az = 0 /\ Bx = 0 /\ By = 0) =>
        /\ Method = "WOZ"
        /\ WOZBPlane(ZeroBlock, SrcPlane, NewFrame).dstp = res.dst
        /\ \A p \in Pixels :
               LET scan == BlkScan(ZeroBlock, SrcPlane, SrcPlane, Row(p), Col(p), TRUE)
                   tile == BlkNormalize(scan, SrcPlane, NewFrame, Row(p), Col(p)).b
               IN /\ scan.wmax = threads[0].ds.wmaxs[p]
                  /\ tile.sumsb[0] = threads[0].ds.sums[p]
                  /\ tile.weightsb[0] = threads[0].ds.weights[p]

C8_Witness ==
    /\ ServedWOZ /\ Ax > 0 /\ Ay > 0 /\ Sx > 0 /\ width > 2 /\ height > 1
    /\ ~IsFlat(SrcPlane) /\ res.dst # SrcPlane
    /\ WOZBPlane(ZeroBlock, SrcPlane, NewFrame).dstp = res.dst

-----------------------------------------------------------------------------
(* Repeated and consecutive requests on one slot *)

\* The frame a slot just constructed returns for frame n.
FromScratch(n) == GetFrameByMethod(nlThread, n, TRUE).dst

\* C2: the frame returned for n is the frame a slot that served nothing before
\* returns for n, whatever the slot served before.
C2_PureOfHistory == (res.n >= 0 /\ ~res.err) => res.dst = FromScratch(res.n)

\* The requests served before the last one.
Earlier == SubSeq(hist[0], 1, Len(hist[0]) - 1)
Served(sq) == {sq[i] : i \in DOMAIN sq}

\* The last two requests were n and n + 1, and n + 1 was not served before them.
Consecutive ==
    /\ Len(hist[0]) >= 2
    /\ hist[0][Len(hist[0])] = hist[0][Len(hist[0]) - 1] + 1
    /\ res.n \notin Served(Earlier)

-----------------------------------------------------------------------------
(* Accesses stay inside the planes and the arrays *)

InBounds(a) ==
    CASE a[1] \in {"s1", "s2", "dst"} -> InPlane(a[2], a[3])
      [] a[1] = "gw"  -> 0 <= a[3] /\ a[3] < Sxa
      [] a[1] = "blk" -> 0 <= a[3] /\ a[3] < Bxa
      [] a[1] = "ds"  -> 0 <= a[3] /\ a[3] < width * height
      [] a[1] \in {"dsa", "lut"} -> 0 <= a[3] /\ a[3] < Az * 2 + 1

\* C4: at every position the loops of the four variants visit, every plane access
\* has its row in 0..height-1 and its column in 0..width-1, and every index into
\* the kernel table, the block scratch, the accumulators, the flags and the lookup
\* tables is inside its array; and a pair always has a patch sample.
C4_AccessInBounds ==
    probe # << >> =>
        /\ \A a \in probe.acc : InBounds(a)
        /\ probe.step = "pair" => \E a \in probe.acc : a[1] = "gw"

\* A candidate of a clipped last tile whose centre lies below the last row and
\* right of the last column, with a patch and a footprint cut on both sides.
C4_Witness ==
    /\ probe # << >> /\ probe.step = "pair" /\ Method = "WZB"
    /\ probe.y > heightm1 /\ probe.x > widthm1
    /\ Sx > 0 /\ Sy > 0 /\ Ax > 0 /\ Ay > 0
    /\ \E a \in probe.acc : a[1] = "s1" /\ a[2] = 0
    /\ \E a \in probe.acc : a[1] = "s1" /\ a[2] = heightm1 /\ a[3] = widthm1

-----------------------------------------------------------------------------
(* Slots under concurrent calls *)

\* The calls that are past the claim and before the end of the release.
Holders(i) == {c \in Calls : calls[c].pc \in {"run", "release"} /\ calls[c].threadId = i}
PastClaim == {c \in Calls : calls[c].pc \in {"run", "release"}}

\* C1: no slot is held by two calls at once, a slot that is held is marked active,
\* and the calls past the claim are never more than the slots.
C1_SlotMutex ==
    /\ \A i \in DOMAIN threads :
           /\ Cardinality(Holders(i)) <= 1
           /\ Holders(i) # {} => threads[i].active = 1
    /\ \A c \in PastClaim : calls[c].threadId \in DOMAIN threads
    /\ Cardinality(PastClaim) <= numThreads

\* Every slot is held by a call of its own, one of the slots has been used before,
\* and one more call spins for want of a slot.
C1_Witness ==
    /\ numThreads = MaxThreads
    /\ \A i \in DOMAIN threads : Cardinality(Holders(i)) = 1
    /\ \E c \in Calls : calls[c].pc = "claim"
    /\ \E i \in DOMAIN threads : Len(hist[i]) >= 1

\* A frame all of whose pixels are written.
IsFrame(f) == DOMAIN f = Pixels /\ \A p \in Pixels : f[p] \in 0..255

\* C9: a call whose output frame could not be allocated has set the filter error
\* and returns no frame; a call that is over leaves its slot free for the next
\* claim; and a call whose frame was allocated returns a whole frame without error,
\* also on a slot a failed call used before.
C9_FailureIsLocal ==
    /\ \A c \in Calls :
           calls[c].pc \in {"release", "done"} =>
               IF calls[c].alloc
               THEN ~calls[c].err /\ IsFrame(calls[c].dst)
               ELSE calls[c].err /\ calls[c].dst = nullptr
    /\ \A i \in DOMAIN threads : Holders(i) = {} => threads[i].active = 0

\* A call failed on a slot, the slot was released, and a later call claimed the
\* same slot and returned a frame.
C9_Witness ==
    \E c1 \in Calls, c2 \in Calls :
        /\ calls[c1].pc = "done" /\ ~calls[c1].alloc /\ calls[c1].err
        /\ calls[c2].pc = "done" /\ calls[c2].alloc /\ IsFrame(calls[c2].dst)
        /\ calls[c2].threadId = calls[c1].threadId
        /\ calls[c2].seq = calls[c1].seq + 1
        /\ Az > 0

\* The state of a slot apart from its busy flag.
Scratch(t) == [t EXCEPT !.active = 0]

\* C10: after a call that failed for want of an output frame the slot's cache,
\* accumulators and flags are what they were before the call.
C10_FailureLeavesSlot ==
    (res.n >= 0 /\ res.err) => Scratch(threads[res.thread]) = Scratch(res.pre)

-----------------------------------------------------------------------------
(* The checks of the arguments at construction *)

\* The fields whose constraint the arguments violate: h <= 0, a <= 0, a radius
\* below 0, a search radius below its block radius.
Violated ==
    {f \in {"h", "a", "ax", "ay", "az", "bx", "by", "sx", "sy"} :
        CASE f = "h"  -> "h" \notin cfg.nan /\ cfg.h <= 0
          [] f = "a"  -> "a" \notin cfg.nan /\ cfg.a <= 0
          [] f = "ax" -> cfg.Ax < 0
          [] f = "ay" -> cfg.Ay < 0
          [] f = "az" -> cfg.Az < 0
          [] f = "bx" -> cfg.Bx < 0
          [] f = "by" -> cfg.By < 0
          [] f = "sx" -> cfg.Sx < 0 \/ cfg.Sx < cfg.Bx
          [] f = "sy" -> cfg.Sy < 0 \/ cfg.Sy < cfg.By}

\* The clip is one the engine is specified for: planar, 8 bits per sample.
SupportedClip == cfg.family # "compat" /\ cfg.bits = 8

\* C11 as stated: once the constructor has returned or thrown, it threw bad_param
\* exactly when some constraint of the list is violated, and the bad_param names a
\* field whose constraint is violated.
C11_FailsIffConstraintViolated ==
    (res # NotBuilt) =>
        /\ (res.thrown = "bad_param") <=> (Violated # {})
        /\ (res.thrown = "bad_param") => res.field \in Violated

\* C11: once the constructor has returned or thrown, it threw bad_param exactly when
\* the clip is not planar 8-bit or some constraint of the list is violated; on a
\* planar 8-bit clip the bad_param names a field whose constraint is violated, on
\* another clip it names the format; whenever the constructor threw, no slot
\* exists; when nothing is violated the checks passed, and the engine is built
\* unless an allocation failed.
C11_EagerValidation ==
    (res # NotBuilt) =>
        /\ (res.thrown = "bad_param") <=> (Violated # {} \/ ~SupportedClip)
        /\ (res.thrown = "bad_param" /\ SupportedClip) => res.field \in Violated
        /\ (res.thrown = "bad_param" /\ ~SupportedClip) => res.field = "format"
        /\ (res.thrown # "") => (threads = nullptr /\ ~res.built)
        /\ (Violated = {} /\ SupportedClip) => (res.built \/ res.thrown = "bad_alloc")
        /\ res.built => (threads # nullptr /\ res.thrown = "")

\* Only the last constraint is violated (Sy < By) and construction has failed
\* with bad_param naming sy.
C11_Witness ==
    /\ SupportedClip
    /\ Violated = {"sy"}
    /\ cfg.Sy >= 0
    /\ res.thrown = "bad_param"
    /\ res.field = "sy"

-----------------------------------------------------------------------------
(* The frame source: what is fetched and what is freed *)

\* The calls of the last request.
LastCalls == SubSeq(probe.log, probe.mark + 1, Len(probe.log))
Gets(seq, use) == {j \in 1..Len(seq) : seq[j].op = "get" /\ seq[j].use = use}

\* The references held after each call of the log, per source frame: a get adds
\* one, a free takes one and is in order when one was held.
Balance(log) ==
    ForLoop(1, Len(log), [held |-> [k \in 0..(numFrames - 1) |-> 0], ok |-> TRUE],
        LAMBDA s, j :
            IF log[j].op = "get"
            THEN [s EXCEPT !.held[log[j].num] = @ + 1]
            ELSE [s EXCEPT !.held[log[j].num] = @ - 1,
                           !.ok = s.ok /\ s.held[log[j].num] > 0])

\* The references to source frame k the slot's cache holds.
Resident(t, k) ==
    IF t.fc = nullptr THEN {}
    ELSE {i \in 0..(t.fc.size - 1) : t.fc.frames[i].pf # nullptr /\ t.fc.frames[i].pf.num = k}

\* The frame numbers whose frame the slot's cache holds.
ResidentFNums(t) ==
    IF t.fc = nullptr THEN {}
    ELSE {t.fc.frames[i].fnum : i \in {i \in 0..(t.fc.size - 1) : t.fc.frames[i].pf # nullptr}}

\* C12 as stated: one request fetches each source frame at most once.
C12_FetchOncePerSource ==
    (res # NoRes /\ threads # nullptr) =>
        \A k \in 0..(numFrames - 1) :
            Cardinality({j \in 1..Len(LastCalls) :
                            LastCalls[j].op = "get" /\ LastCalls[j].num = k}) <= 1

\* C12: one request fetches once for newVideoFrame, in the spatial variants once
\* more for the source frame when the allocation succeeded, and in the temporal
\* variants at most once per frame number of the window and never for a frame
\* number resident before the call, each fetch asking for mapn of its frame number;
\* over the whole run no reference is freed that is not held, the references
\* fetched and not yet freed are exactly those in the slot's cache, and after the
\* engine is deleted none is left.
C12_FetchAndRelease ==
    /\ (res # NoRes /\ threads # nullptr) =>
          /\ Cardinality(Gets(LastCalls, "dst")) = 1
          /\ Cardinality(Gets(LastCalls, "src")) = IF Az = 0 /\ res.alloc THEN 1 ELSE 0
          /\ \A j \in Gets(LastCalls, "cache") :
                /\ LastCalls[j].i \in (res.n - Az)..(res.n + Az)
                /\ LastCalls[j].i \notin ResidentFNums(res.pre)
                /\ \A j2 \in Gets(LastCalls, "cache") :
                       LastCalls[j2].i = LastCalls[j].i => j2 = j
          /\ \A j \in 1..Len(LastCalls) :
                LastCalls[j].op = "get" => LastCalls[j].num = mapn(LastCalls[j].i)
    /\ \E b \in {Balance(probe.log)} :
          /\ b.ok
          /\ \A k \in 0..(numFrames - 1) :
                b.held[k] = IF threads = nullptr THEN 0
                            ELSE Cardinality(Resident(threads[0], k))

\* A temporal request that keeps a resident frame, drops and frees another and
\* fetches a new one; and the engine deleted after requests that filled the cache.
C12_Witness ==
    \/ /\ threads # nullptr
       /\ Az = 1
       /\ Len(hist[0]) = 2
       /\ \E i \in (res.n - Az)..(res.n + Az) : i \in ResidentFNums(res.pre)
       /\ \E j \in 1..Len(LastCalls) : LastCalls[j].op = "free" /\ LastCalls[j].use = "cache"
       /\ Gets(LastCalls, "cache") # {}
    \/ /\ threads = nullptr
       /\ Az = 2
       /\ Len(hist[0]) = MaxServe
       /\ Len(probe.log) > probe.mark + 2 * Az + 3

-----------------------------------------------------------------------------
(* The rotation of the cache *)

\* start_pos is a slot, and the logical positions map one-to-one onto the slots.
Rotated(fc) ==
    /\ fc.start_pos \in 0..(fc.size - 1)
    /\ {getCachePos(fc, k) : k \in 0..(fc.size - 1)} = 0..(fc.size - 1)
    /\ \A k1, k2 \in 0..(fc.size - 1) :
           getCachePos(fc, k1) = getCachePos(fc, k2) => k1 = k2

\* C13: the cache of a slot, as constructed and after every request of any
\* sequence, has 0 <= start_pos < size and getCachePos one-to-one from the logical
\* positions onto the slots, and so has the cache resetCacheStart returns for the
\* window of any further request.
C13_RotationInvariant ==
    (threads # nullptr /\ threads[0].fc # nullptr) =>
        /\ Rotated(threads[0].fc)
        /\ \A n \in 0..(numFrames - 1) :
               Rotated(resetCacheStart(threads[0].fc, n - Az, n + Az))

\* A request below the one before it that keeps a resident frame: start_pos was
\* moved back past slot 0 and wrapped.
C13_Witness ==
    /\ threads # nullptr
    /\ threads[0].fc # nullptr
    /\ Len(hist[0]) >= 2
    /\ res.n < hist[0][Len(hist[0]) - 1]
    /\ \E i \in (res.n - Az)..(res.n + Az) : i \in ResidentFNums(res.pre)
    /\ threads[0].fc.start_pos # res.pre.fc.start_pos
    /\ \E i \in 0..(res.pre.fc.size - 1) :
           /\ res.pre.fc.frames[i].fnum \in (res.n - Az)..(res.n + Az)
           /\ i - res.pre.fc.frames[i].fnum + (res.n - Az) < 0

-----------------------------------------------------------------------------
(* The accumulators of the per-pixel variants *)

\* Every pixel of an accumulator triple has weight >= maxWeight.
AccOK(ds) == \A p \in DOMAIN ds.weights : ds.weights[p] >= ds.wmaxs[p]
CacheAccOK(fc) == \A i \in 0..(fc.size - 1) : AccOK(fc.frames[i].ds)

\* GetFrameWOZ's loops on plane pfp, step by step: ok says whether AccOK held after
\* every pair and every self term so far.
WOZSteps(pfp) ==
    LET zero == [sums    |-> fill_zero_d(height * width),
                 weights |-> fill_zero_d(height * width),
                 wmaxs   |-> fill_zero_d(height * width)]
        Pairs(s, y, x) ==
            ForLoop(y, WOZStopY(y), s,
                LAMBDA s1, u : ForLoop(WOZStartX(u, y, x), WOZStopX(x), s1,
                    LAMBDA s2, v :
                        Strict(WOZPair(s2.ds, pfp, y, x, u, v), LAMBDA d :
                            [s2 EXCEPT !.ds = d, !.ok = s2.ok /\ AccOK(d)])))
    IN ForLoop(0, height - 1, [ds |-> zero, dstp |-> NewFrame, ok |-> TRUE],
           LAMBDA s, y : ForLoop(0, width - 1, s,
               LAMBDA s3, x :
                   Strict(Pairs(s3, y, x), LAMBDA s4 :
                       Strict(SelfTerm([ds |-> s4.ds, dstp |-> s4.dstp], y * width + x,
                                       pfp[y * pitch + x]),
                           LAMBDA r : [ds |-> r.ds, dstp |-> r.dstp,
                                       ok |-> s4.ok /\ AccOK(r.ds)]))))

\* GetFrameWZ's loops for frame n on the refilled cache fc0, step by step.
WZSteps(fc0, n) ==
    LET dpos == getCachePos(fc0, Az)
        Pairs(s, y, x, z) ==
            IF s.fc.frames[dpos].dsa[z] = 1
            THEN s
            ELSE ForLoop(WZStartY(z, y), WOZStopY(y),
                         [s EXCEPT !.fc.frames[dpos].dsa[z] = 2],
                     LAMBDA s1, u : ForLoop(WZStartX(z, u, y, x), WOZStopX(x), s1,
                         LAMBDA s2, v :
                             Strict(WZPair(s2.fc, y, x, z, u, v), LAMBDA c :
                                 [s2 EXCEPT !.fc = c, !.ok = s2.ok /\ CacheAccOK(c)])))
    IN ForLoop(0, height - 1, [fc |-> fc0, dstp |-> NewFrame, ok |-> CacheAccOK(fc0)],
           LAMBDA s, y : ForLoop(0, width - 1, s,
               LAMBDA s3, x :
                   Strict(ForLoop(startz(n), stopz(n), s3,
                                  LAMBDA s5, z : Pairs(s5, y, x, z)),
                       LAMBDA s4 :
                           Strict(SelfTerm([ds |-> s4.fc.frames[dpos].ds, dstp |-> s4.dstp],
                                           y * width + x,
                                           getReadPtr(s4.fc.frames[dpos].pf)[y * pitch + x]),
                               LAMBDA r :
                                   [fc   |-> [s4.fc EXCEPT !.frames[dpos].ds = r.ds],
                                    dstp |-> r.dstp,
                                    ok   |-> s4.ok /\ AccOK(r.ds)]))))

\* The steps of the last request, replayed from the slot as it was before it.
LastSteps ==
    IF Az = 0
    THEN WOZSteps(node[mapn(res.n)])
    ELSE WZSteps(Refill(res.pre.fc, res.n, TRUE), res.n)

\* C14: in the spatial-pixel and temporal-pixel variants, after the zeroing of a
\* request or a refill, after every pair step and every self term of every request
\* of any sequence, every pixel of every accumulator of the slot has
\* weight >= maxWeight; the steps replayed are the ones that gave the slot's state
\* and the frame returned.
C14_WeightCoversMax ==
    /\ IF Az = 0 THEN AccOK(threads[0].ds) ELSE CacheAccOK(threads[0].fc)
    /\ res # NoRes =>
          \E s \in {LastSteps} :
             /\ s.ok
             /\ s.dstp = res.dst
             /\ IF Az = 0 THEN s.ds = threads[0].ds
                ELSE WZMark(s.fc) = threads[0].fc

\* A temporal request that adds to accumulators kept from the request before it,
\* with a pixel whose maxWeight is above 0 and below its weight.
C14_Witness ==
    /\ Az > 0
    /\ Len(hist[0]) >= 2
    /\ res.n # hist[0][Len(hist[0]) - 1]
    /\ \E i \in 0..(threads[0].fc.size - 1) :
          /\ threads[0].fc.frames[i].fnum = res.n
          /\ res.n \in {res.pre.fc.frames[k].fnum : k \in 0..(res.pre.fc.size - 1)}
          /\ \E p \in 0..(width * height - 1) :
                /\ threads[0].fc.frames[i].ds.wmaxs[p] > 0
                /\ threads[0].fc.frames[i].ds.weights[p] > threads[0].fc.frames[i].ds.wmaxs[p]

-----------------------------------------------------------------------------
(* Progress of the calls *)

\* The calls inside GetFrame.
InFlight == {c \in Calls : calls[c].pc \in {"claim", "run", "release"}}

\* Slot i is marked active.
Busy(i) == i \in DOMAIN threads /\ threads[i].active = 1

\* C15 without its proviso: every call that entered GetFrame returns.
C15_EveryCallReturns ==
    \A c \in Calls : (calls[c].pc = "claim") ~> (calls[c].pc = "done")

\* C15: in a run in which the calls inside GetFrame never outnumber the slots,
\* every call that entered GetFrame claims a slot, runs its variant and returns
\* with the slot released, and no slot stays marked active for ever.
C15_Progress ==
    [](Cardinality(InFlight) <= numThreads) =>
        /\ \A c \in Calls : (calls[c].pc = "claim") ~> (calls[c].pc = "run")
        /\ \A c \in Calls : (calls[c].pc = "run") ~> (calls[c].pc = "done")
        /\ \A i \in 0..(MaxThreads - 1) : Busy(i) ~> ~Busy(i)

\* As many calls inside GetFrame as there are slots, each past its claim on a slot
\* of its own, after an earlier call has returned.
C15_Witness ==
    /\ numThreads = MaxThreads
    /\ Cardinality(InFlight) = numThreads
    /\ \A c \in InFlight : calls[c].pc \in {"run", "release"}
    /\ \E c \in Calls : calls[c].pc = "done"

-----------------------------------------------------------------------------
(* What a request keeps of the cache and what it replaces *)

\* The slots of cache fc whose frame number is i.
SlotsOf(fc, i) == {s \in 0..(fc.size - 1) : fc.frames[s].fnum = i}
\* A frame as clearDS leaves it.
Zeroed(nl) ==
    /\ \A p \in DOMAIN nl.ds.weights :
           nl.ds.sums[p] = 0 /\ nl.ds.weights[p] = 0 /\ nl.ds.wmaxs[p] = 0
    /\ \A k \in DOMAIN nl.dsa : nl.dsa[k] = 0
\* The cache get calls of the last request for frame number i.
FetchedFor(i) == {j \in Gets(LastCalls, "cache") : LastCalls[j].i = i}

\* C16: in the temporal-pixel variant, for every request of any sequence, the
\* cache after resetCacheStart and the refill loop holds at logical position k,
\* for a frame number n-Az+k that was in a slot before the call, that slot's frame
\* with its reference, accumulators and flags untouched and not fetched again, and
\* for any other frame number a frame fetched in this call (once) with
\* accumulators and flags zero; the loops then run on this cache.
C16_RealignKeepsResident ==
    (res # NoRes /\ threads # nullptr /\ Az # 0 /\ Bx = 0 /\ By = 0) =>
        \E fc1 \in {Refill(res.pre.fc, res.n, TRUE)} :
            /\ \A k \in 0..(2 * Az) :
                  \E i \in {res.n - Az + k} :
                  \E nl \in {fc1.frames[getCachePos(fc1, k)]} :
                      IF SlotsOf(res.pre.fc, i) # {}
                      THEN /\ nl \in {res.pre.fc.frames[s] : s \in SlotsOf(res.pre.fc, i)}
                           /\ FetchedFor(i) = {}
                      ELSE /\ nl.fnum = i
                           /\ nl.pf = getFrameFilter(mapn(i))
                           /\ Zeroed(nl)
                           /\ Cardinality(FetchedFor(i)) = 1
            /\ \A s \in 0..(fc1.size - 1) :
                  /\ threads[0].fc.frames[s].fnum = fc1.frames[s].fnum
                  /\ threads[0].fc.frames[s].pf = fc1.frames[s].pf
            /\ threads[0].fc.start_pos = fc1.start_pos
            /\ ~res.alloc => threads[0].fc = fc1

\* A request whose window overlaps the one before it: a frame with accumulated
\* weight is kept and another slot is replaced.
C16_Witness ==
    /\ threads # nullptr /\ Az # 0 /\ Bx = 0 /\ By = 0
    /\ Len(hist[0]) >= 2
    /\ \E i \in (res.n - Az)..(res.n + Az) :
          /\ SlotsOf(res.pre.fc, i) # {}
          /\ \E s \in SlotsOf(res.pre.fc, i) :
                /\ res.pre.fc.frames[s].pf # nullptr
                /\ res.pre.fc.frames[s].ds.weights[0] > 0
    /\ \E i \in (res.n - Az)..(res.n + Az) :
          /\ SlotsOf(res.pre.fc, i) = {}
          /\ FetchedFor(i) # {}

-----------------------------------------------------------------------------
(* The cache after the refill *)

\* C17: after resetCacheStart and the refill loop of any temporal request for
\* frame n, pixel or block, the slot at every logical position k of 0..2*Az has
\* frame number n-Az+k and holds a reference to source frame mapn(n-Az+k); the
\* loops run on these slots.
C17_RefillPostcondition ==
    (res # NoRes /\ threads # nullptr /\ Az # 0) =>
        \E fc1 \in {Refill(res.pre.fc, res.n, Bx = 0 /\ By = 0)} :
            \A k \in 0..(2 * Az) :
                \E pos \in {getCachePos(fc1, k)} :
                    /\ fc1.frames[pos].fnum = res.n - Az + k
                    /\ fc1.frames[pos].pf # nullptr
                    /\ fc1.frames[pos].pf = getFrameFilter(mapn(res.n - Az + k))
                    /\ threads[0].fc.frames[pos].pf = fc1.frames[pos].pf
                    /\ threads[0].fc.frames[pos].fnum = fc1.frames[pos].fnum

-----------------------------------------------------------------------------
(* What the accumulators of a cached frame contain *)

\* The weight of pixel p of plane plf with pixel q of plane plg, by sets.
RefCross(plf, p, plg, q) ==
    LET O == RefOffsets(p, q)
        diff == SumSet(O, LAMBDA o :
                    IF ssd
                    THEN (RefAt(plf, p, o) - RefAt(plg, q, o)) * (RefAt(plf, p, o) - RefAt(plg, q, o))
                         * RefKernel(o)
                    ELSE Abs(RefAt(plf, p, o) - RefAt(plg, q, o)) * RefKernel(o))
        gweights == SumSet(O, LAMBDA o : RefKernel(o))
    IN ExpFix(diff, IF ssd THEN gweights * h * h ELSE gweights * h)

\* The candidates of pixel p in the frame at offset k of the window: p's spatial
\* window, without p itself in p's own frame.
Candidates(k, p) == IF k = Az THEN RefWindow(p) ELSE RefWindow(p) \cup {p}

\* The pairs <<k, q>> the flags of frame nl say its pixel p contains.
FlaggedPairs(nl, p) ==
    {kq \in (0..(2 * Az)) \X Pixels : nl.dsa[kq[1]] = 1 /\ kq[2] \in Candidates(kq[1], p)}
PairW(nl, p, kq) == RefCross(node[nl.fnum], p, node[nl.fnum + kq[1] - Az], kq[2])

\* How often frame f was served since it was last fetched: the latest requests
\* with f in their window, back to the first one without.
SelfCount(f) ==
    LET RECURSIVE SC(_)
        SC(j) == IF j = 0 THEN 0
                 ELSE IF Abs(hist[0][j] - f) > Az THEN 0
                 ELSE (IF hist[0][j] = f THEN 1 ELSE 0) + SC(j - 1)
    IN SC(Len(hist[0]))

\* The frames of the clip the cache holds.
CachedFrames ==
    {threads[0].fc.frames[s] : s \in {s \in 0..(threads[0].fc.size - 1) :
        /\ threads[0].fc.frames[s].pf # nullptr
        /\ threads[0].fc.frames[s].fnum \in 0..(numFrames - 1)}}

\* C18: after every temporal-pixel request of any sequence, each pixel p of each
\* frame f of the clip in the cache has accumulated exactly the pairs its flags
\* name, each once: its weight, sum and maximum are those of the candidates q of
\* the frames f+k-Az with consumed[k] = 1, plus one self term per time f was served
\* since it was fetched; a flag is 0 or 1 and names a frame of the clip; the frame
\* just served has the flag of every frame of its window that is in the clip, and
\* its output pixel is sum/weight.
C18_FlagsMatchAccumulators ==
    (Az # 0 /\ res # NoRes) =>
        /\ \A nl \in CachedFrames :
              /\ \A k \in 0..(2 * Az) :
                    /\ nl.dsa[k] \in {0, 1}
                    /\ nl.dsa[k] = 1 => (nl.fnum + k - Az) \in 0..(numFrames - 1)
              /\ \A p \in Pixels :
                 \E self \in {SelfCount(nl.fnum) * SelfWeight(nl.ds.wmaxs[p])} :
                    /\ nl.ds.weights[p] =
                          SumSet(FlaggedPairs(nl, p), LAMBDA kq : PairW(nl, p, kq)) + self
                    /\ nl.ds.sums[p] =
                          SumSet(FlaggedPairs(nl, p), LAMBDA kq :
                              PairW(nl, p, kq) * node[nl.fnum + kq[1] - Az][kq[2]])
                          + self * node[nl.fnum][p]
                    /\ nl.ds.wmaxs[p] =
                          MaxSet(FlaggedPairs(nl, p), LAMBDA kq : PairW(nl, p, kq))
        /\ \E nl \in CachedFrames :
              /\ nl.fnum = res.n
              /\ \A k \in 0..(2 * Az) :
                    (res.n + k - Az) \in 0..(numFrames - 1) => nl.dsa[k] = 1
              /\ \A p \in Pixels : res.dst[p] = Normalize(nl.ds.sums[p], nl.ds.weights[p])

\* A frame served, evicted and served again: it was fetched anew with accumulators
\* and flags zero, while a neighbour kept in the cache already holds its pairs
\* with it (mirror flag set) and does not take them again; some pair weighs
\* neither 0 nor 1.0.
C18_Witness ==
    /\ Az # 0
    /\ Len(hist[0]) = MaxServe
    /\ res.n \in Served(Earlier)
    /\ SlotsOf(res.pre.fc, res.n) = {}
    /\ \E s \in 0..(res.pre.fc.size - 1) :
          /\ res.pre.fc.frames[s].fnum = res.n + 1
          /\ res.pre.fc.frames[s].dsa[Az - 1] = 1
          /\ \E p \in Pixels : res.pre.fc.frames[s].ds.wmaxs[p] \in 1..(WOne - 1)
    /\ Ax = 1 /\ width = MaxTWidth

-----------------------------------------------------------------------------
(* The tiles of the block variants *)

\* The pixels <<row, column>> the end of tile (y, x) writes.
TileWrites(y, x) == {<<a[2], a[3]>> : a \in {a \in BlkTileAccess(y, x) : a[1] = "dst"}}
BlkCentres == BlkCentresY \X BlkCentresX

\* The offsets of the output plane that BlkNormalize writes for tile (y, x).
Written(y, x) ==
    {p \in Pixels :
        BlkNormalize(ZeroBlock, node[0], NewFrame, y, x).dstp[p] # Uninit}

\* C19: in both block variants the tiles are (2Bx+1) x (2By+1) pixels, cut at the
\* last row and column, each writes every pixel of its rectangle once, no two
\* tiles write the same pixel, all tiles together write exactly the pixels of the
\* plane, and a request returns a whole frame that does not depend on what the
\* block scratch held before (it is zeroed at the start of each tile).
C19_TilesPartitionPlane ==
    /\ \A c \in BlkCentres :
          /\ TileWrites(c[1], c[2]) =
                 {rc \in (0..(height - 1)) \X (0..(width - 1)) :
                     /\ rc[1] \in (c[1] - By)..(c[1] + By)
                     /\ rc[2] \in (c[2] - Bx)..(c[2] + Bx)}
          /\ Cardinality(TileWrites(c[1], c[2])) = BlkTrY(c[1]) * BlkTrX(c[2])
          /\ \A c2 \in BlkCentres :
                 c2 # c => TileWrites(c[1], c[2]) \cap TileWrites(c2[1], c2[2]) = {}
    /\ UNION {TileWrites(c[1], c[2]) : c \in BlkCentres}
           = (0..(height - 1)) \X (0..(width - 1))
    /\ \A c \in BlkCentres :
           Written(c[1], c[2]) = {rc[1] * pitch + rc[2] : rc \in TileWrites(c[1], c[2])}
    /\ probe # << >> =>
           {<<a[2], a[3]>> : a \in {a \in probe.acc : a[1] = "dst"}}
               = TileWrites(probe.y, probe.x)
    /\ res # NoRes =>
           /\ IsFrame(res.dst)
           /\ res.dst = FromScratch(res.n)

\* The end of a tile cut at the last row and at the last column, in a plane with a
\* whole tile to its left, probed after a second request found the block scratch
\* as the first one left it.
C19_Witness ==
    /\ probe # << >>
    /\ BlkTrX(probe.x) < Bxd /\ BlkTrY(probe.y) < Byd
    /\ probe.x > Bx /\ Bx > 0 /\ By > 0
    /\ Len(hist[0]) >= 2
    /\ \E i \in DOMAIN res.pre.sumsb : res.pre.sumsb[i] # 0

=============================================================================
